---------------------------- MODULE Spec2Model ----------------------------
(***************************************************************************)
(* A model of the assistant bot of main.py: the field types, Record,       *)
(* AddressBook with its upcoming-birthday query, pickle persistence, the   *)
(* input_error decorator, the command handlers and the command loop.       *)
(*                                                                         *)
(* Python strings are modelled as sequences of code points (each literal   *)
(* is written out, with its text in the comment beside it), so that        *)
(* str.isdigit, str.lower, string comparison, strptime and strftime are    *)
(* computed on characters as the interpreter computes them.                *)
(***************************************************************************)
EXTENDS Integers, Sequences, FiniteSets, TLC

VARIABLES
    book,     \* main's `book`: the AddressBook's data, a dict in insertion order
    file,     \* the content of addressbook.pkl, or NoFile
    pc,       \* "off": no process; "running": main's while loop waits for a line
    session,  \* how many times main() has been started
    closed,   \* history: how the last process ended, and the book it held then
    obs       \* history: the last operation, what it returned or raised

vars == <<book, file, pc, session, closed, obs>>

\* Python's None, where a record or a birthday may be absent
None == [none |-> TRUE]

\* addressbook.pkl does not exist
NoFile == [exists |-> FALSE]

(***************************************************************************)
(* Bounds of the model.                                                    *)
(***************************************************************************)
MaxPhones == 2       \* phones per record the modelled inputs build up to
MaxDayOffset == 2    \* `today` ranges over each anchor day + 0..MaxDayOffset
MaxSessions == 2     \* runs of main() in the multi-session specification

(***************************************************************************)
(* Strings.                                                                *)
(***************************************************************************)
\* the string literals of the source
TxtContactName == <<67, 111, 110, 116, 97, 99, 116, 32, 110, 97, 109, 101, 58, 32>>    \* "Contact name: "
TxtPhones == <<44, 32, 112, 104, 111, 110, 101, 115, 58, 32>>    \* ", phones: "
TxtBirthday == <<44, 32, 98, 105, 114, 116, 104, 100, 97, 121, 58, 32>>    \* ", birthday: "
SemiSep == <<59, 32>>    \* "; "
CommaSep == <<44, 32>>    \* ", "
ColonSep == <<58, 32>>    \* ": "
Dash == <<45>>    \* "-"
NewLine == <<10>>    \* "\n"
CmdHello == <<104, 101, 108, 108, 111>>    \* "hello"
CmdAdd == <<97, 100, 100>>    \* "add"
CmdChange == <<99, 104, 97, 110, 103, 101>>    \* "change"
CmdPhone == <<112, 104, 111, 110, 101>>    \* "phone"
CmdAll == <<97, 108, 108>>    \* "all"
CmdAddBirthday == <<97, 100, 100, 45, 98, 105, 114, 116, 104, 100, 97, 121>>    \* "add-birthday"
CmdShowBirthday == <<115, 104, 111, 119, 45, 98, 105, 114, 116, 104, 100, 97, 121>>    \* "show-birthday"
CmdBirthdays == <<98, 105, 114, 116, 104, 100, 97, 121, 115>>    \* "birthdays"
CmdClose == <<99, 108, 111, 115, 101>>    \* "close"
CmdExit == <<101, 120, 105, 116>>    \* "exit"

\* Python's a < b on str: lexicographic by code point
RECURSIVE StrLess(_, _)
StrLess(a, b) ==
    IF b = <<>> THEN FALSE
    ELSE IF a = <<>> THEN TRUE
    ELSE IF Head(a) # Head(b) THEN Head(a) < Head(b)
    ELSE StrLess(Tail(a), Tail(b))

\* str.isdigit on one character, for the characters of the model: true of the
\* characters whose Unicode Numeric_Type is Decimal or Digit, so of "0".."9"
\* and of U+00B2 SUPERSCRIPT TWO (code point 178), which is no decimal digit
CharIsDigit(c) == c \in 48..57 \/ c = 178

\* str.isdigit: non-empty and every character a digit
IsDigit(s) == s # <<>> /\ \A i \in 1..Len(s) : CharIsDigit(s[i])

\* str.lower on the characters of the model
Lower(s) == [i \in 1..Len(s) |-> IF s[i] \in 65..90 THEN s[i] + 32 ELSE s[i]]

\* sep.join(strs)
RECURSIVE Join(_, _)
Join(sep, strs) ==
    IF strs = <<>> THEN <<>>
    ELSE IF Len(strs) = 1 THEN strs[1]
    ELSE strs[1] \o sep \o Join(sep, Tail(strs))

\* int() of a string of ASCII digits
RECURSIVE ToInt(_)
ToInt(s) == IF s = <<>> THEN 0 ELSE 10 * ToInt(SubSeq(s, 1, Len(s) - 1)) + (s[Len(s)] - 48)

\* "%0<w>d" % n
RECURSIVE Pad(_, _)
Pad(n, w) == IF w = 0 THEN <<>> ELSE Pad(n \div 10, w - 1) \o <<48 + (n % 10)>>

(***************************************************************************)
(* datetime.date.                                                          *)
(***************************************************************************)
Date(y, m, d) == [year |-> y, month |-> m, day |-> d]

IsLeap(y) == y % 4 = 0 /\ (y % 100 # 0 \/ y % 400 = 0)

DaysInMonth(y, m) ==
    IF m = 2 THEN (IF IsLeap(y) THEN 29 ELSE 28)
    ELSE IF m \in {4, 6, 9, 11} THEN 30 ELSE 31

DaysBeforeYear(y) == (y - 1) * 365 + (y - 1) \div 4 - (y - 1) \div 100 + (y - 1) \div 400

\* the days of the year before month m
DaysBeforeMonth(y, m) ==
    <<0, 31, 59, 90, 120, 151, 181, 212, 243, 273, 304, 334>>[m]
    + (IF m > 2 /\ IsLeap(y) THEN 1 ELSE 0)

\* the fields datetime.date accepts
ValidDate(y, m, d) == y \in 1..9999 /\ m \in 1..12 /\ d \in 1..DaysInMonth(y, m)

\* date.toordinal()
ToOrdinal(dt) == DaysBeforeYear(dt.year) + DaysBeforeMonth(dt.year, dt.month) + dt.day

\* date.fromordinal(n)
FromOrdinal(n) ==
    LET n0 == n - 1
        n400 == n0 \div 146097
        r400 == n0 % 146097
        n100 == r400 \div 36524
        r100 == r400 % 36524
        n4 == r100 \div 1461
        r4 == r100 % 1461
        n1 == r4 \div 365
        r1 == r4 % 365
        y == n400 * 400 + 1 + n100 * 100 + n4 * 4 + n1
    IN  IF n1 = 4 \/ n100 = 4 THEN Date(y - 1, 12, 31)
        ELSE LET m == CHOOSE mm \in 1..12 :
                          /\ DaysBeforeMonth(y, mm) <= r1
                          /\ r1 < DaysBeforeMonth(y, mm) + DaysInMonth(y, mm)
             IN  Date(y, m, r1 - DaysBeforeMonth(y, m) + 1)

\* date + timedelta(days=k)
AddDays(dt, k) == FromOrdinal(ToOrdinal(dt) + k)

\* date.weekday(): Monday is 0, Sunday is 6
Weekday(dt) == (ToOrdinal(dt) + 6) % 7

\* a < b and a <= b on dates
DateLess(a, b) ==
    \/ a.year < b.year
    \/ a.year = b.year /\ a.month < b.month
    \/ a.year = b.year /\ a.month = b.month /\ a.day < b.day

DateLeq(a, b) == a = b \/ DateLess(a, b)

\* date.replace(year=y) raises ValueError unless the new fields are a date
CanReplaceYear(dt, y) == ValidDate(y, dt.month, dt.day)

ReplaceYear(dt, y) == Date(y, dt.month, dt.day)

(***************************************************************************)
(* Field types.  A constructor either returns the stored value or raises   *)
(* ValueError: [ok |-> FALSE, msg |-> str(e)].                             *)
(***************************************************************************)
PhoneLen == 10

MsgPhone == "Phone number must contain exactly 10 digits."
MsgDate == "Invalid date format. Use DD.MM.YYYY"

\* Phone.__init__
Phone(value) ==
    IF ~(IsDigit(value) /\ Len(value) = PhoneLen)
    THEN [ok |-> FALSE, msg |-> MsgPhone]
    ELSE [ok |-> TRUE, value |-> value]

\* the positions of "." in s
Dots(s) == {i \in 1..Len(s) : s[i] = 46}

AsciiDigitStr(s) == \A i \in 1..Len(s) : s[i] \in 48..57

\* the date of the fields strptime matched, None when they are no date
\* (datetime.date raises ValueError)
MakeDate(y, m, d) == IF ValidDate(y, m, d) THEN Date(y, m, d) ELSE None

\* %d and %m match one or two digits, %Y exactly four
MatchFields(dd, mm, yy) ==
    IF /\ Len(dd) \in {1, 2} /\ AsciiDigitStr(dd)
       /\ Len(mm) \in {1, 2} /\ AsciiDigitStr(mm)
       /\ Len(yy) = 4 /\ AsciiDigitStr(yy)
    THEN MakeDate(ToInt(yy), ToInt(mm), ToInt(dd))
    ELSE None

\* value split at its two dots, at i and j
SplitAt(value, i, j) ==
    MatchFields(SubSeq(value, 1, i - 1), SubSeq(value, i + 1, j - 1),
                SubSeq(value, j + 1, Len(value)))

Least(set) == CHOOSE k \in set : \A j \in set : k <= j

Greatest(set) == CHOOSE k \in set : \A j \in set : k >= j

\* datetime.strptime(value, "%d.%m.%Y").date(): None when strptime raises
Strptime(value) ==
    IF Cardinality(Dots(value)) # 2 THEN None
    ELSE SplitAt(value, Least(Dots(value)), Greatest(Dots(value)))

\* lines 29-31, dt being what strptime gave
BirthdayOf(dt) ==
    IF dt = None THEN [ok |-> FALSE, msg |-> MsgDate] ELSE [ok |-> TRUE, value |-> dt]

\* Birthday.__init__
Birthday(value) == BirthdayOf(Strptime(value))

\* Birthday.__str__: strftime("%d.%m.%Y")
BirthdayStr(dt) == Pad(dt.day, 2) \o <<46>> \o Pad(dt.month, 2) \o <<46>> \o Pad(dt.year, 4)

(***************************************************************************)
(* Record.  A method returns [rec |-> the record afterwards, exc |-> the   *)
(* exception it raised or "none", msg |-> str(e)].                         *)
(***************************************************************************)
\* Record.__init__
Record(name) == [name |-> name, phones |-> <<>>, birthday |-> None]

Done(rec) == [rec |-> rec, exc |-> "none", msg |-> ""]

Raised(rec, exc, msg) == [rec |-> rec, exc |-> exc, msg |-> msg]

\* the index the for loop breaks at: the first phone whose value equals phone
Matches(phones, phone) == {i \in 1..Len(phones) : phones[i] = phone}

FirstMatch(phones, phone) ==
    CHOOSE i \in Matches(phones, phone) : \A j \in Matches(phones, phone) : i <= j

\* Record.add_phone, ph being Phone(phone)
append_phone(rec, ph) ==
    IF ph.ok THEN Done([rec EXCEPT !.phones = Append(@, ph.value)])
    ELSE Raised(rec, "ValueError", ph.msg)

add_phone(rec, phone) == append_phone(rec, Phone(phone))

\* Record.remove_phone
remove_phone(rec, phone) ==
    IF Matches(rec.phones, phone) = {} THEN Done(rec)
    ELSE LET i == FirstMatch(rec.phones, phone)
         IN  Done([rec EXCEPT !.phones = SubSeq(@, 1, i - 1) \o SubSeq(@, i + 1, Len(@))])

\* line 55, ph being Phone(new_phone)
replace_phone(rec, i, ph) ==
    IF ph.ok THEN Done([rec EXCEPT !.phones[i] = ph.value])
    ELSE Raised(rec, "ValueError", ph.msg)

\* mutant of edit_phone: the new phone validated before the search
edit_phone_validating_first(rec, old_phone, new_phone) ==
    IF ~Phone(new_phone).ok THEN Raised(rec, "ValueError", Phone(new_phone).msg)
    ELSE IF Matches(rec.phones, old_phone) = {} THEN Done(rec)
    ELSE Done([rec EXCEPT !.phones[FirstMatch(rec.phones, old_phone)] = new_phone])

\* Record.edit_phone
edit_phone(rec, old_phone, new_phone) ==
    IF Matches(rec.phones, old_phone) = {} THEN Done(rec)
    ELSE replace_phone(rec, FirstMatch(rec.phones, old_phone), Phone(new_phone))

\* Record.find_phone
find_phone(rec, phone) ==
    IF Matches(rec.phones, phone) = {} THEN None
    ELSE [value |-> rec.phones[FirstMatch(rec.phones, phone)]]

\* Record.add_birthday, b being Birthday(birthday_str)
set_birthday(rec, b) ==
    IF b.ok THEN Done([rec EXCEPT !.birthday = b.value])
    ELSE Raised(rec, "ValueError", b.msg)

add_birthday_rec(rec, birthday_str) == set_birthday(rec, Birthday(birthday_str))

(***************************************************************************)
(* AddressBook: a dict from name to Record, kept as the sequence of its    *)
(* values in insertion order.                                              *)
(***************************************************************************)
Index(data, name) == {i \in 1..Len(data) : data[i].name = name}

\* AddressBook.add_record: data[record.name.value] = record
add_record(data, rec) ==
    IF Index(data, rec.name) = {} THEN Append(data, rec)
    ELSE [data EXCEPT ![CHOOSE i \in Index(data, rec.name) : TRUE] = rec]

\* AddressBook.find: data.get(name)
find(data, name) ==
    IF Index(data, name) = {} THEN None
    ELSE data[CHOOSE i \in Index(data, name) : TRUE]

\* AddressBook.delete
delete(data, name) ==
    IF Index(data, name) = {} THEN data
    ELSE LET i == CHOOSE k \in Index(data, name) : TRUE
         IN  SubSeq(data, 1, i - 1) \o SubSeq(data, i + 1, Len(data))

\* the record of a name the book holds, replaced by rec (the handlers mutate it in place)
Store(data, rec) == [i \in 1..Len(data) |-> IF data[i].name = rec.name THEN rec ELSE data[i]]

(***************************************************************************)
(* list.sort(key=...) and sorted(): a stable insertion sort of the items   *)
(* <<key, value>>, a key being a tuple of strings compared in order.       *)
(***************************************************************************)
RECURSIVE KeyLess(_, _)
KeyLess(a, b) ==
    IF b = <<>> THEN FALSE
    ELSE IF a = <<>> THEN TRUE
    ELSE IF Head(a) # Head(b) THEN StrLess(Head(a), Head(b))
    ELSE KeyLess(Tail(a), Tail(b))

RECURSIVE Insert(_, _)
Insert(sorted, x) ==
    IF sorted = <<>> THEN <<x>>
    ELSE IF KeyLess(x[1], sorted[Len(sorted)][1])
    THEN Append(Insert(SubSeq(sorted, 1, Len(sorted) - 1), x), sorted[Len(sorted)])
    ELSE Append(sorted, x)

RECURSIVE SortItems(_)
SortItems(s) ==
    IF s = <<>> THEN <<>>
    ELSE Insert(SortItems(SubSeq(s, 1, Len(s) - 1)), s[Len(s)])

Values(items) == [i \in 1..Len(items) |-> items[i][2]]

(***************************************************************************)
(* AddressBook.get_upcoming_birthdays.                                     *)
(***************************************************************************)
HorizonDays == 7
Saturday == 5
Sunday == 6

\* congratulation_date.strftime("%Y.%m.%d")
Strftime(dt) == Pad(dt.year, 4) \o <<46>> \o Pad(dt.month, 2) \o <<46>> \o Pad(dt.day, 2)

\* mutant of SortKey: the name before the date
SortKeyNameFirst(d) == <<d.name, d.congratulation_date>>

\* the sort key of line 105: (d["congratulation_date"], d["name"])
SortKey(d) == <<d.congratulation_date, d.name>>

\* mutant of Congratulation: a Saturday moved by one day only
CongratulationSaturdayPlusOne(bday) ==
    IF Weekday(bday) = Saturday THEN AddDays(bday, 1)
    ELSE IF Weekday(bday) = Sunday THEN AddDays(bday, 1)
    ELSE bday

\* the weekend shift of lines 95-100
Congratulation(bday) ==
    IF Weekday(bday) = Saturday THEN AddDays(bday, 2)
    ELSE IF Weekday(bday) = Sunday THEN AddDays(bday, 1)
    ELSE bday

\* mutants of InWindow: the horizon left out, and today left out
InWindowBelowHorizon(today, bday, horizon) == DateLeq(today, bday) /\ DateLess(bday, horizon)

InWindowAfterToday(today, bday, horizon) == DateLess(today, bday) /\ DateLeq(bday, horizon)

\* today <= bday_this_year <= horizon
InWindow(today, bday, horizon) == DateLeq(today, bday) /\ DateLeq(bday, horizon)

\* lines 95-104: the entry of a birthday in the window
Entry(name, bday) ==
    [name |-> name, congratulation_date |-> Strftime(Congratulation(bday))]

\* lines 92-93: next year's date when this year's is before today; the replace
\* raises ValueError when next year has no such day
NeedsNextYear(this, today) == DateLess(this, today)

\* the for loop from record i on: [raised, result], raised when a replace(year=...)
\* raises ValueError, which ends the call
RECURSIVE UpcomingLoop(_, _, _, _, _)
UpcomingLoop(data, i, today, horizon, result) ==
    IF i > Len(data) THEN [raised |-> FALSE, result |-> result]
    ELSE IF data[i].birthday = None THEN UpcomingLoop(data, i + 1, today, horizon, result)
    ELSE IF ~CanReplaceYear(data[i].birthday, today.year)
    THEN [raised |-> TRUE, result |-> <<>>]
    ELSE IF NeedsNextYear(ReplaceYear(data[i].birthday, today.year), today)
    THEN IF ~CanReplaceYear(data[i].birthday, today.year + 1)
         THEN [raised |-> TRUE, result |-> <<>>]
         ELSE IF InWindow(today, ReplaceYear(data[i].birthday, today.year + 1), horizon)
         THEN UpcomingLoop(data, i + 1, today, horizon,
                  Append(result,
                         Entry(data[i].name, ReplaceYear(data[i].birthday, today.year + 1))))
         ELSE UpcomingLoop(data, i + 1, today, horizon, result)
    ELSE IF InWindow(today, ReplaceYear(data[i].birthday, today.year), horizon)
    THEN UpcomingLoop(data, i + 1, today, horizon,
             Append(result, Entry(data[i].name, ReplaceYear(data[i].birthday, today.year))))
    ELSE UpcomingLoop(data, i + 1, today, horizon, result)

\* result.sort(key=lambda d: (d["congratulation_date"], d["name"]))
SortResult(result) ==
    Values(SortItems([i \in 1..Len(result) |-> <<SortKey(result[i]), result[i]>>]))

\* lines 105-106, r being what the loop gave
SortAndReturn(r) ==
    IF r.raised THEN r ELSE [raised |-> FALSE, result |-> SortResult(r.result)]

\* get_upcoming_birthdays with datetime.today().date() = today
get_upcoming_birthdays(data, today) ==
    SortAndReturn(UpcomingLoop(data, 1, today, AddDays(today, HorizonDays), <<>>))

(***************************************************************************)
(* Record.__str__.                                                         *)
(***************************************************************************)
RecordStr(rec) ==
    TxtContactName \o rec.name
    \o TxtPhones
    \o (IF rec.phones # <<>> THEN Join(SemiSep, rec.phones) ELSE Dash)
    \o TxtBirthday
    \o (IF rec.birthday # None THEN BirthdayStr(rec.birthday) ELSE Dash)

(***************************************************************************)
(* save_data and load_data.  pickle writes each Record's fields; a date is *)
(* pickled as the four bytes of date.__reduce__: year high, year low,      *)
(* month, day.                                                             *)
(***************************************************************************)
\* mutant of PickleDate: the year's high byte lost
PickleDateLowByte(b) == IF b = None THEN <<>> ELSE <<0, b.year % 256, b.month, b.day>>

PickleDate(b) == IF b = None THEN <<>> ELSE <<b.year \div 256, b.year % 256, b.month, b.day>>

UnpickleDate(bytes) ==
    IF bytes = <<>> THEN None ELSE Date(bytes[1] * 256 + bytes[2], bytes[3], bytes[4])

Pickle(data) ==
    [i \in 1..Len(data) |-> <<data[i].name, data[i].phones, PickleDate(data[i].birthday)>>]

Unpickle(bytes) ==
    [i \in 1..Len(bytes) |->
        [name |-> bytes[i][1], phones |-> bytes[i][2], birthday |-> UnpickleDate(bytes[i][3])]]

\* save_data: the file afterwards
save_data(data) == [exists |-> TRUE, bytes |-> Pickle(data)]

\* load_data: FileNotFoundError gives a new AddressBook()
load_data(f) == IF f.exists THEN Unpickle(f.bytes) ELSE <<>>

(***************************************************************************)
(* The command handlers.  A handler's body ends in                          *)
(* [data |-> the book afterwards, exc |-> "none" or the exception raised,  *)
(*  val |-> the string returned, or str(e)]; a string is [lit |-> text]    *)
(* for a literal of the source and [str |-> code points] when formatted.   *)
(***************************************************************************)
Lit(text) == [lit |-> text]

Str(s) == [str |-> s]

Return(data, val) == [data |-> data, exc |-> "none", val |-> val]

Raise(data, exc, val) == [data |-> data, exc |-> exc, val |-> val]

\* `a, b, *_ = args` with too few values: ValueError
Unpack(expected, got) ==
    [fmt |-> "not enough values to unpack (expected at least %d, got %d)",
     args |-> <<expected, got>>]

\* what a handler gives after a Record method that gave r: the book holds the
\* record as the method left it
After(data, r, message) ==
    IF r.exc = "none" THEN Return(Store(data, r.rec), Lit(message))
    ELSE Raise(data, r.exc, Lit(r.msg))

\* lines 146-154 of add_contact, found being book.find(name)
add_contact_found(name, phone, data, found) ==
    IF found = None
    THEN IF phone # <<>>
         THEN After(add_record(data, Record(name)), add_phone(Record(name), phone),
                    "Contact added.")
         ELSE Return(add_record(data, Record(name)), Lit("Contact added."))
    ELSE IF phone # <<>>
         THEN After(data, add_phone(found, phone), "Contact updated.")
         ELSE Return(data, Lit("Contact updated."))

\* the body of add_contact
add_contact_body(args, data) ==
    IF Len(args) < 2 THEN Raise(data, "ValueError", Unpack(2, Len(args)))
    ELSE add_contact_found(args[1], args[2], data, find(data, args[1]))

\* lines 161-164 of change_contact, record being book.find(name)
change_contact_found(old_phone, new_phone, data, record) ==
    IF record = None THEN Raise(data, "KeyError", Lit(""))
    ELSE After(data, edit_phone(record, old_phone, new_phone), "Contact updated.")

\* the body of change_contact
change_contact_body(args, data) ==
    IF Len(args) < 3 THEN Raise(data, "ValueError", Unpack(3, Len(args)))
    ELSE change_contact_found(args[2], args[3], data, find(data, args[1]))

\* lines 171-175 of show_phone, record being book.find(name)
show_phone_found(data, record) ==
    IF record = None THEN Raise(data, "KeyError", Lit(""))
    ELSE IF record.phones = <<>> THEN Return(data, Lit("No phones."))
    ELSE Return(data, Str(record.name \o ColonSep \o Join(SemiSep, record.phones)))

\* the body of show_phone
show_phone_body(args, data) ==
    IF Len(args) < 1 THEN Raise(data, "ValueError", Unpack(1, Len(args)))
    ELSE show_phone_found(data, find(data, args[1]))

\* the body of show_all
show_all_body(args, data) ==
    IF data = <<>> THEN Return(data, Lit("No contacts saved."))
    ELSE Return(data, Str(Join(NewLine, [i \in 1..Len(data) |-> RecordStr(data[i])])))

\* lines 189-193 of add_birthday, found being book.find(name)
add_birthday_found(name, bday_str, data, found) ==
    IF found = None
    THEN After(add_record(data, Record(name)), add_birthday_rec(Record(name), bday_str),
               "Birthday set.")
    ELSE After(data, add_birthday_rec(found, bday_str), "Birthday set.")

\* the body of add_birthday
add_birthday_body(args, data) ==
    IF Len(args) < 2 THEN Raise(data, "ValueError", Unpack(2, Len(args)))
    ELSE add_birthday_found(args[1], args[2], data, find(data, args[1]))

\* lines 200-204 of show_birthday, record being book.find(name)
show_birthday_found(data, record) ==
    IF record = None THEN Raise(data, "KeyError", Lit(""))
    ELSE IF record.birthday = None THEN Return(data, Lit("Birthday not set."))
    ELSE Return(data, Str(record.name \o ColonSep \o BirthdayStr(record.birthday)))

\* the body of show_birthday
show_birthday_body(args, data) ==
    IF Len(args) < 1 THEN Raise(data, "ValueError", Unpack(1, Len(args)))
    ELSE show_birthday_found(data, find(data, args[1]))

\* by_date's keys in the order setdefault first sees them
RECURSIVE FirstSeen(_)
FirstSeen(days) ==
    IF days = <<>> THEN <<>>
    ELSE LET front == FirstSeen(SubSeq(days, 1, Len(days) - 1))
             last == days[Len(days)]
         IN  IF \E i \in 1..Len(front) : front[i] = last THEN front ELSE Append(front, last)

\* sorted(strs)
Sorted(strs) == Values(SortItems([i \in 1..Len(strs) |-> <<(<<strs[i]>>), strs[i]>>]))

\* by_date[day]: the names of the day in the order they were appended
NamesOf(on) == [i \in 1..Len(on) |-> on[i].name]

NamesOn(upcoming, day) ==
    NamesOf(SelectSeq(upcoming, LAMBDA item : item.congratulation_date = day))

\* f"{day}: {names}" for each day of days
DayLines(upcoming, days) ==
    [k \in 1..Len(days) |->
        days[k] \o ColonSep \o Join(CommaSep, Sorted(NamesOn(upcoming, days[k])))]

\* the lines of birthdays, days being sorted(by_date.keys())
BirthdayLines(upcoming) ==
    DayLines(upcoming,
             Sorted(FirstSeen([i \in 1..Len(upcoming) |-> upcoming[i].congratulation_date])))

\* lines 210-219 of birthdays, up being what get_upcoming_birthdays gave
birthdays_format(data, up) ==
    IF up.raised THEN Raise(data, "ValueError", Lit("day is out of range for month"))
    ELSE IF up.result = <<>> THEN Return(data, Lit("No birthdays in the next 7 days."))
    ELSE Return(data, Str(Join(NewLine, BirthdayLines(up.result))))

\* the body of birthdays, datetime.today().date() being today
birthdays_body(args, data, today) == birthdays_format(data, get_upcoming_birthdays(data, today))

\* mutant of input_error: ValueError not caught
input_error_without_ValueError(r) ==
    IF r.exc = "none" THEN r
    ELSE IF r.exc = "IndexError" THEN Return(r.data, Lit("Enter user name."))
    ELSE IF r.exc = "KeyError" THEN Return(r.data, Lit("Contact not found."))
    ELSE r

\* input_error's inner: the handler's result as main sees it
input_error(r) ==
    IF r.exc = "none" THEN r
    ELSE IF r.exc = "ValueError"
    THEN Return(r.data, IF r.val # Lit("") THEN r.val ELSE Lit("Give me name and phone please."))
    ELSE IF r.exc = "IndexError" THEN Return(r.data, Lit("Enter user name."))
    ELSE IF r.exc = "KeyError" THEN Return(r.data, Lit("Contact not found."))
    ELSE r

(***************************************************************************)
(* main: one pass of the while loop on a line whose split() gives tokens.  *)
(***************************************************************************)
\* parse_input: the command word lower-cased, and the arguments
parse_input(tokens) ==
    IF tokens = <<>> THEN [cmd |-> <<>>, args |-> <<>>]
    ELSE [cmd |-> Lower(Head(tokens)), args |-> Tail(tokens)]

\* the if/elif chain of lines 233-263 below close/exit: what the handler gives
Dispatch(cmd, args, data, today) ==
    IF cmd = CmdHello THEN Return(data, Lit("How can I help you?"))
    ELSE IF cmd = CmdAdd THEN input_error(add_contact_body(args, data))
    ELSE IF cmd = CmdChange THEN input_error(change_contact_body(args, data))
    ELSE IF cmd = CmdPhone THEN input_error(show_phone_body(args, data))
    ELSE IF cmd = CmdAll THEN input_error(show_all_body(args, data))
    ELSE IF cmd = CmdAddBirthday THEN input_error(add_birthday_body(args, data))
    ELSE IF cmd = CmdShowBirthday THEN input_error(show_birthday_body(args, data))
    ELSE IF cmd = CmdBirthdays THEN input_error(birthdays_body(args, data, today))
    ELSE Return(data, Lit("Invalid command."))

IsExit(cmd) == cmd \in {CmdClose, CmdExit}

\* what the pass leaves in obs: the command, what was printed, the exception that
\* left main (or "none"), and for birthdays what get_upcoming_birthdays gave
Observe(cmd, r, data, today) ==
    IF cmd = CmdBirthdays
    THEN [kind |-> "line", cmd |-> cmd,
          printed |-> IF r.exc = "none" THEN r.val ELSE None, escaped |-> r.exc,
          today |-> today, up |-> get_upcoming_birthdays(data, today)]
    ELSE [kind |-> "line", cmd |-> cmd,
          printed |-> IF r.exc = "none" THEN r.val ELSE None, escaped |-> r.exc]

\* no record holds more phones than the model's bound
Bounded(data) == \A i \in 1..Len(data) : Len(data[i].phones) <= MaxPhones

\* the pass of a line that is neither blank nor close/exit, r being what the
\* handler gave
Handled(cmd, r, today) ==
    /\ Bounded(r.data)
    /\ book' = r.data
    /\ obs' = Observe(cmd, r, book, today)
    /\ IF r.exc = "none"
       THEN UNCHANGED <<pc, closed>>
       ELSE pc' = "off" /\ closed' = [how |-> "crash", book |-> r.data]
    /\ UNCHANGED file

\* the loop reads a line; today is what datetime.today().date() gives during it
MainLoop(tokens, today) ==
    /\ pc = "running"
    /\ IF tokens = <<>>
       THEN /\ obs' = [kind |-> "line", cmd |-> <<>>, printed |-> None, escaped |-> "none"]
            /\ UNCHANGED <<book, file, pc, closed>>
       ELSE IF IsExit(parse_input(tokens).cmd)
       THEN /\ file' = save_data(book)
            /\ pc' = "off"
            /\ closed' = [how |-> "exit", book |-> book]
            /\ obs' = [kind |-> "line", cmd |-> parse_input(tokens).cmd,
                       printed |-> Lit("Good bye!"), escaped |-> "none"]
            /\ UNCHANGED book
       ELSE Handled(parse_input(tokens).cmd,
                    Dispatch(parse_input(tokens).cmd, parse_input(tokens).args, book, today),
                    today)
    /\ UNCHANGED session

(***************************************************************************)
(* The inputs of the model.                                                *)
(***************************************************************************)
Al == <<65, 108>>    \* "Al"
Bob == <<66, 111, 98>>    \* "Bob"
LowerAl == <<97, 108>>    \* "al"
CmdDelete == <<100, 101, 108, 101, 116, 101>>    \* "delete"
CmdBirthday == <<98, 105, 114, 116, 104, 100, 97, 121>>    \* "birthday"
UpperAdd == <<65, 68, 68>>    \* "ADD"
CapHello == <<72, 101, 108, 108, 111>>    \* "Hello"
UpperExit == <<69, 88, 73, 84>>    \* "EXIT"
Extra == <<101, 120, 116, 114, 97>>    \* "extra"
D1006 == <<49, 48, 46, 48, 54, 46, 49, 57, 57, 48>>    \* "10.06.1990"
D1506 == <<49, 53, 46, 48, 54, 46, 49, 57, 56, 53>>    \* "15.06.1985"
D1606 == <<49, 54, 46, 48, 54, 46, 50, 48, 48, 49>>    \* "16.06.2001"
D1706 == <<49, 55, 46, 48, 54, 46, 49, 57, 57, 57>>    \* "17.06.1999"
D1806 == <<49, 56, 46, 48, 54, 46, 49, 57, 55, 48>>    \* "18.06.1970"
D0201 == <<48, 50, 46, 48, 49, 46, 49, 57, 57, 53>>    \* "02.01.1995"
D2902 == <<50, 57, 46, 48, 50, 46, 50, 48, 48, 48>>    \* "29.02.2000"
D1506b == <<49, 53, 46, 48, 54, 46, 49, 57, 57, 48>>    \* "15.06.1990"
D3104 == <<51, 49, 46, 48, 52, 46, 50, 48, 48, 48>>    \* "31.04.2000": April has 30 days

GoodPhone == <<48, 49, 50, 51, 52, 53, 54, 55, 56, 57>>    \* "0123456789"
OtherPhone == <<53, 53, 53, 48, 48, 48, 49, 49, 49, 49>>    \* "5550001111"
SuperscriptPhone == <<178, 178, 178, 178, 178, 178, 178, 178, 178, 178>>    \* ten times U+00B2
ShortPhone == <<49, 50, 51, 52, 53>>    \* "12345"
LetterPhone == <<49, 50, 51, 52, 53, 97, 98, 99, 100, 101>>    \* "12345abcde"
AnyDay == Date(2024, 6, 10)

\* the anchor days of `today`: a Monday in June, a week before New Year, a week
\* before 29 February of a leap year, and late February of a common year
Anchors == {Date(2024, 6, 10), Date(2024, 12, 25), Date(2024, 2, 21), Date(2025, 2, 26)}

Todays == {AddDays(a, k) : a \in Anchors, k \in 0..MaxDayOffset}

Names == {Al, Bob}
PhoneArgs == {GoodPhone, SuperscriptPhone, ShortPhone, LetterPhone}
DateArgs == {D2902, D3104}

\* argument lists: every length from none to one more than the handler reads
AddArgs ==
    {<<>>} \cup {<<n>> : n \in Names} \cup {<<n, p>> : n \in Names, p \in PhoneArgs}
    \cup {<<Al, GoodPhone, Extra>>}

ChangeArgs ==
    {<<>>, <<Al>>, <<Al, GoodPhone>>, <<Al, GoodPhone, SuperscriptPhone, Extra>>}
    \cup {<<Al, o, p>> : o \in {GoodPhone, SuperscriptPhone}, p \in PhoneArgs}
    \cup {<<Bob, GoodPhone, SuperscriptPhone>>, <<Bob, GoodPhone, ShortPhone>>}

NameArgs == {<<>>} \cup {<<n>> : n \in Names}

BirthdayArgs == {<<>>, <<Al>>} \cup {<<n, d>> : n \in Names, d \in DateArgs}

\* the days main's birthdays command is run on
MainDays == {Date(2024, 6, 10), Date(2024, 2, 23)}

QueryDates == {D1006, D1506, D1606, D1706, D1806, D0201, D2902}

\* the add-birthday lines the birthday query's books are built with
QueryArgs ==
    {<<Al, d>> : d \in QueryDates}
    \cup {<<Bob, d>> : d \in QueryDates \ {D0201}}
    \cup {<<LowerAl, d>> : d \in {D1506, D1806}}

(***************************************************************************)
(* Actions.                                                                *)
(***************************************************************************)
\* main() starts: load_data
Load ==
    /\ book' = load_data(file)
    /\ pc' = "running"
    /\ session' = session + 1
    /\ obs' = [kind |-> "start"]
    /\ UNCHANGED <<file, closed>>

Start == pc = "off" /\ session = 0 /\ Load

Restart == pc = "off" /\ session \in 1..(MaxSessions - 1) /\ Load

\* input() raises EOFError or KeyboardInterrupt: the process ends, nothing is saved
Interrupt ==
    /\ pc = "running"
    /\ pc' = "off"
    /\ closed' = [how |-> "interrupt", book |-> book]
    /\ obs' = [kind |-> "interrupt"]
    /\ UNCHANGED <<book, file, session>>

Blank ==
    /\ pc = "running"
    /\ MainLoop(<<>>, AnyDay)

Hello ==
    /\ pc = "running"
    /\ \E w \in {CmdHello, CapHello} : MainLoop(<<w>>, AnyDay)

\* a command word typed in upper case
UpperCase ==
    /\ pc = "running"
    /\ MainLoop(<<UpperAdd, Bob, GoodPhone>>, AnyDay)

AddCmd(argsets) ==
    /\ pc = "running"
    /\ \E args \in argsets : MainLoop(<<CmdAdd>> \o args, AnyDay)

ChangeCmd(argsets) ==
    /\ pc = "running"
    /\ \E args \in argsets : MainLoop(<<CmdChange>> \o args, AnyDay)

PhoneCmd(argsets) ==
    /\ pc = "running"
    /\ \E args \in argsets : MainLoop(<<CmdPhone>> \o args, AnyDay)

AllCmd ==
    /\ pc = "running"
    /\ MainLoop(<<CmdAll>>, AnyDay)

AddBirthdayCmd(argsets) ==
    /\ pc = "running"
    /\ \E args \in argsets : MainLoop(<<CmdAddBirthday>> \o args, AnyDay)

ShowBirthdayCmd(argsets) ==
    /\ pc = "running"
    /\ \E args \in argsets : MainLoop(<<CmdShowBirthday>> \o args, AnyDay)

BirthdaysCmd(todays) ==
    /\ pc = "running"
    /\ \E today \in todays : MainLoop(<<CmdBirthdays>>, today)

Unknown ==
    /\ pc = "running"
    /\ \E w \in {CmdDelete, CmdBirthday} : MainLoop(<<w, Al>>, AnyDay)

Exit ==
    /\ pc = "running"
    /\ \E w \in {CmdClose, CmdExit, UpperExit} : MainLoop(<<w>>, AnyDay)

(***************************************************************************)
(* Record and AddressBook used directly, without main.                     *)
(***************************************************************************)
RecPhones == {GoodPhone, OtherPhone, ShortPhone}

\* a method of record i gave r
RecordOp(i, op, args, r) ==
    /\ Bounded(Store(book, r.rec))
    /\ book' = Store(book, r.rec)
    /\ obs' = [kind |-> "record", op |-> op, args |-> args,
               before |-> book[i], after |-> r.rec, exc |-> r.exc]
    /\ UNCHANGED <<file, pc, session, closed>>

\* book.add_record(Record(name)): a new contact, or a contact replaced
NewRecord ==
    /\ pc = "off" /\ session = 0
    /\ \E name \in {Al} :
           /\ book' = add_record(book, Record(name))
           /\ obs' = [kind |-> "book", op |-> "add_record", args |-> <<name>>]
    /\ UNCHANGED <<file, pc, session, closed>>

RecAddPhone ==
    /\ pc = "off" /\ session = 0
    /\ \E i \in 1..Len(book), phone \in RecPhones :
           RecordOp(i, "add_phone", <<phone>>, add_phone(book[i], phone))

RecRemovePhone ==
    /\ pc = "off" /\ session = 0
    /\ \E i \in 1..Len(book), phone \in RecPhones :
           RecordOp(i, "remove_phone", <<phone>>, remove_phone(book[i], phone))

RecEditPhone ==
    /\ pc = "off" /\ session = 0
    /\ \E i \in 1..Len(book), old \in RecPhones, new \in RecPhones :
           RecordOp(i, "edit_phone", <<old, new>>, edit_phone(book[i], old, new))

RecAddBirthday ==
    /\ pc = "off" /\ session = 0
    /\ \E i \in 1..Len(book), date \in {D1506b, D3104} :
           RecordOp(i, "add_birthday", <<date>>, add_birthday_rec(book[i], date))

Init ==
    /\ book = <<>>
    /\ file = NoFile
    /\ pc = "off"
    /\ session = 0
    /\ closed = [how |-> "never"]
    /\ obs = [kind |-> "init"]

\* one run of main()
Next ==
    \/ Start
    \/ Interrupt
    \/ Blank
    \/ Hello
    \/ UpperCase
    \/ AddCmd(AddArgs)
    \/ ChangeCmd(ChangeArgs)
    \/ PhoneCmd(NameArgs)
    \/ AllCmd
    \/ AddBirthdayCmd(BirthdayArgs)
    \/ ShowBirthdayCmd(NameArgs)
    \/ BirthdaysCmd(MainDays)
    \/ Unknown
    \/ Exit

Spec == Init /\ [][Next]_vars

\* the birthday query on the books add-birthday builds
NextQuery ==
    \/ Start
    \/ AddBirthdayCmd(QueryArgs)
    \/ BirthdaysCmd(Todays)

SpecQuery == Init /\ [][NextQuery]_vars

\* runs of main() one after the other
NextSessions ==
    \/ Start
    \/ Restart
    \/ Interrupt
    \/ AddCmd({<<n, p>> : n \in Names, p \in {GoodPhone, ShortPhone}})
    \/ AddBirthdayCmd({<<Al, D1506b>>})
    \/ Exit

SpecSessions == Init /\ [][NextSessions]_vars

\* the methods of Record called on a record of the book
NextRecord ==
    \/ NewRecord
    \/ RecAddPhone
    \/ RecRemovePhone
    \/ RecEditPhone
    \/ RecAddBirthday

SpecRecord == Init /\ [][NextRecord]_vars

(***************************************************************************)
(* Properties of the birthday query, checked under SpecQuery.              *)
(***************************************************************************)
\* the last line was `birthdays`: obs.up is what get_upcoming_birthdays gave for
\* the book of this state on the day obs.today
Queried == obs.kind = "line" /\ obs.cmd = CmdBirthdays

\* the query returned a list
Returned == Queried /\ ~obs.up.raised

\* the positions of the contacts with a birthday set
WithBirthday == {i \in 1..Len(book) : book[i].birthday # None}

\* the birthday's month and day in year y
InYear(b, y) == Date(y, b.month, b.day)

\* the next occurrence as the specification defines it: in today's year, or in
\* the year after when that date is before today
NextOccurrence(b, today) ==
    IF DateLess(InYear(b, today.year), today)
    THEN InYear(b, today.year + 1) ELSE InYear(b, today.year)

\* how many days after today the contact's next occurrence is
DaysAhead(i) == ToOrdinal(NextOccurrence(book[i].birthday, obs.today)) - ToOrdinal(obs.today)

\* the entries of the result that name contact i
EntriesOf(i) == {k \in 1..Len(obs.up.result) : obs.up.result[k].name = book[i].name}

InResult(i) == EntriesOf(i) # {}

\* the calendar date a "%Y.%m.%d" string names
ParseYmd(s) == Date(ToInt(SubSeq(s, 1, 4)), ToInt(SubSeq(s, 6, 7)), ToInt(SubSeq(s, 9, 10)))

C3_WeekendShift ==
    Returned =>
        \A i \in WithBirthday : \A k \in EntriesOf(i) :
            LET occ == ToOrdinal(NextOccurrence(book[i].birthday, obs.today))
                con == ParseYmd(obs.up.result[k].congratulation_date)
            IN  /\ ValidDate(con.year, con.month, con.day)
                /\ (ToOrdinal(con) + 6) % 7 \notin {5, 6}
                /\ ToOrdinal(con) >= occ
                /\ (occ + 6) % 7 = 5 => ToOrdinal(con) = occ + 2
                /\ (occ + 6) % 7 = 6 => ToOrdinal(con) = occ + 1
                /\ (occ + 6) % 7 \in 0..4 => ToOrdinal(con) = occ

\* a result with a Saturday birthday, a Sunday birthday and a weekday birthday
C3_Witness ==
    /\ Returned
    /\ \E i \in WithBirthday :
           InResult(i) /\ Weekday(NextOccurrence(book[i].birthday, obs.today)) = 5
    /\ \E i \in WithBirthday :
           InResult(i) /\ Weekday(NextOccurrence(book[i].birthday, obs.today)) = 6
    /\ \E i \in WithBirthday :
           InResult(i) /\ Weekday(NextOccurrence(book[i].birthday, obs.today)) \in 0..4

\* C4: the result is non-decreasing by congratulation date, compared as calendar
\* dates, and entries of one date are non-decreasing by name, whatever the order
\* the contacts were inserted in.
C4_Sorted ==
    Returned =>
        \A k \in 1..Len(obs.up.result), l \in 1..Len(obs.up.result) :
            k < l =>
                LET a == obs.up.result[k]
                    b == obs.up.result[l]
                IN  \/ DateLess(ParseYmd(a.congratulation_date), ParseYmd(b.congratulation_date))
                    \/ /\ ParseYmd(a.congratulation_date) = ParseYmd(b.congratulation_date)
                       /\ ~StrLess(b.name, a.name)

\* a result of three entries, two of one date, from a book that holds the
\* contacts in another order than the result
C4_Witness ==
    /\ Returned
    /\ Len(obs.up.result) = 3
    /\ \E k \in 1..2 :
           obs.up.result[k].congratulation_date = obs.up.result[k + 1].congratulation_date
    /\ \E k \in 1..2 :
           obs.up.result[k].congratulation_date # obs.up.result[k + 1].congratulation_date
    /\ \E i \in 1..Len(book), j \in 1..Len(book) :
           /\ i < j
           /\ \E k \in EntriesOf(i), l \in EntriesOf(j) : l < k

\* a contact born on 29 February
LeapDay(b) == b # None /\ b.month = 2 /\ b.day = 29

\* the year the next occurrence of a 29 February falls in: today's, or the year
\* after when today is after 29 February
LeapDayYear(today) ==
    IF today.month > 2 THEN today.year + 1 ELSE today.year

\* C5: the query does not raise when the book holds a contact born on
\* 29 February and the year of the next occurrence is no leap year.
C5_LeapDayDoesNotRaise ==
    (/\ Queried
     /\ \E i \in 1..Len(book) : LeapDay(book[i].birthday)
     /\ ~IsLeap(LeapDayYear(obs.today)))
    => ~obs.up.raised


(***************************************************************************)
(* Properties of Record's methods, checked under SpecRecord.               *)
(***************************************************************************)
\* the last operation was method op of a record: obs.before and obs.after are the
\* record before and after it, obs.exc what it raised
Called(op) == obs.kind = "record" /\ obs.op = op

\* the first position of obs.before.phones that holds s, 0 when none does
FirstAt(s) ==
    IF \E k \in 1..Len(obs.before.phones) : obs.before.phones[k] = s
    THEN CHOOSE k \in 1..Len(obs.before.phones) :
             /\ obs.before.phones[k] = s
             /\ \A j \in 1..(k - 1) : obs.before.phones[j] # s
    ELSE 0

\* C6: editPhone(old, new) and removePhone(s) on a record with no phone equal to
\* old (to s) raise nothing, whatever new is, and leave phones, birthday and name
\* as they were; with a match only the first matching position is replaced
\* (removed) and every other position keeps its value and order.
C6_EditRemoveFrame ==
    /\ Called("remove_phone") =>
           LET s == obs.args[1]
               k == FirstAt(s)
               old == obs.before.phones
               new == obs.after.phones
           IN  /\ obs.exc = "none"
               /\ obs.after.name = obs.before.name
               /\ obs.after.birthday = obs.before.birthday
               /\ k = 0 => new = old
               /\ k > 0 =>
                      /\ Len(new) = Len(old) - 1
                      /\ \A j \in 1..(k - 1) : new[j] = old[j]
                      /\ \A j \in k..Len(new) : new[j] = old[j + 1]
    /\ Called("edit_phone") =>
           LET k == FirstAt(obs.args[1])
               old == obs.before.phones
               new == obs.after.phones
           IN  /\ obs.after.name = obs.before.name
               /\ obs.after.birthday = obs.before.birthday
               /\ k = 0 => obs.exc = "none" /\ new = old
               /\ k > 0 =>
                      /\ Len(new) = Len(old)
                      /\ \A j \in 1..Len(old) : j # k => new[j] = old[j]
                      /\ obs.exc = "none" => new[k] = obs.args[2]
                      /\ obs.exc # "none" => new[k] = old[k]

\* editPhone with an old phone the record does not hold and a new phone that is
\* no phone number, on a record that holds phones and a birthday
C6_Witness ==
    /\ Called("edit_phone")
    /\ FirstAt(obs.args[1]) = 0
    /\ ~Phone(obs.args[2]).ok
    /\ obs.before.phones # <<>>
    /\ obs.before.birthday # None

(***************************************************************************)
(* Properties of the command loop, checked under Spec.                     *)
(***************************************************************************)
HandlerCommands ==
    {CmdAdd, CmdChange, CmdPhone, CmdAll, CmdAddBirthday, CmdShowBirthday, CmdBirthdays}

\* C7: every pass of the loop on a line of a handler's command prints the string
\* the handler returned, no exception leaves main, and the loop has ended only
\* when the line was close or exit.
C7_ErrorsBecomeStrings ==
    /\ closed.how # "crash"
    /\ obs.kind = "line" =>
           /\ obs.escaped = "none"
           /\ obs.cmd \in HandlerCommands => obs.printed # None /\ pc = "running"
           /\ pc = "off" <=> IsExit(obs.cmd)

\* birthdays on a day when the date arithmetic of the query raised: the error's
\* text was printed and the loop goes on
C7_Witness ==
    /\ Queried
    /\ obs.up.raised
    /\ obs.printed = Lit("day is out of range for month")
    /\ obs.escaped = "none"
    /\ pc = "running"

\* a string of exactly 10 decimal digits
TenDecimalDigits(s) == Len(s) = 10 /\ \A k \in 1..Len(s) : s[k] \in 48..57

\* C8: every phone of every contact is a string of exactly 10 decimal digits.
C8_PhonesAreTenDecimalDigits ==
    \A i \in 1..Len(book) : \A k \in 1..Len(book[i].phones) :
        TenDecimalDigits(book[i].phones[k])

\* the strings a handler returns for an error input_error caught
ErrorMessage(printed) ==
    \/ printed \in {Lit(MsgPhone), Lit(MsgDate), Lit("Contact not found."),
                    Lit("Enter user name."), Lit("Give me name and phone please."),
                    Lit("day is out of range for month")}
    \/ "fmt" \in DOMAIN printed

\* C10: a pass of the loop whose handler returned an error message leaves the
\* book as it was.
C10_FailedCommandLeavesBook ==
    [][(obs'.kind = "line" /\ obs'.printed # None /\ ErrorMessage(obs'.printed))
           => book' = book]_vars

(***************************************************************************)
(* Properties of persistence, checked under SpecSessions.                  *)
(***************************************************************************)
\* C9: a session starts with an empty collection when there is no file, and with
\* the collection the previous session held at close/exit when that session
\* ended by close/exit; close/exit ends the process with that collection saved.
C9_SessionsRoundTrip ==
    /\ (obs.kind = "start" /\ ~file.exists) => book = <<>>
    /\ (obs.kind = "start" /\ closed.how = "exit") => book = closed.book
    /\ (obs.kind = "line" /\ IsExit(obs.cmd)) =>
           /\ pc = "off"
           /\ closed = [how |-> "exit", book |-> book]
           /\ file.exists
           /\ load_data(file) = book

\* a second session that starts with a contact with a phone and a birthday and
\* one with a phone only, as the first session held them at exit
C9_Witness ==
    /\ obs.kind = "start"
    /\ session = 2
    /\ closed.how = "exit"
    /\ Len(book) = 2
    /\ \E i \in 1..Len(book) : book[i].phones # <<>> /\ book[i].birthday # None
    /\ \E i \in 1..Len(book) : book[i].phones # <<>> /\ book[i].birthday = None

=============================================================================
